---- MODULE Spec2Model ----
(***************************************************************************)
(* Session server of jothish-lux/server.                                   *)
(*                                                                         *)
(*   src/public/app.js  POST /qr-start, GET /qr-status, startQrFlow:       *)
(*                      the registry qrSessions driven by the library's    *)
(*                      connection.update events and a safety timer;       *)
(*                      GET /code-session and generateCodeSession.         *)
(*   src/index.js       GET /api/session/qr, /pair, /result/:id,           *)
(*                      /creds/:code, createSocket, storeSessionAndCode.   *)
(*                                                                         *)
(* The protocol library is a black box: a live socket may report any       *)
(* connection.update; a socket the program has ended reports one final     *)
(* close and nothing else.  Handlers run to completion between awaits, so  *)
(* every action is one synchronous stretch of a handler.                   *)
(***************************************************************************)
EXTENDS Integers, Sequences, FiniteSets, TLC

\* ------------------------------------------------------------ bounds
MaxQr == 2              \* distinct QR payloads the library rotates through
MaxVer == 2             \* credential versions a socket saves
MaxCodes == 3           \* short codes generateShortCode can draw
MaxRenders == 2         \* QRCode.toDataURL calls pending at once
MaxSends == 2           \* sendMessage calls per session
MaxPhoneDigits == 16    \* longest digit run of a phone query
MaxRpcCalls == 2        \* requestPairingCode calls the model follows
MaxStoreCalls == 2      \* direct storeSessionAndCode calls per session
MaxEndTimers == 2       \* `open` reports of one code-session socket
MaxCodeLen == 8         \* longest string requestPairingCode returns

\* --------------------------------------------------- program constants
LoggedOut == 401
GroupLen == 4           \* the {1,4} of the pairing-code grouping
RestartRequired == 515
\* A status code that is neither of the two the handlers single out.
OtherCode == LoggedOut + RestartRequired
SESSION_PREFIX == "LUX~"

Null == "null"
NoQr == 0               \* update.qr is undefined
NoSession == <<>>       \* entry.session is null
NoCode == 0             \* lastDisconnect carries no status code
NoDir == [owner |-> 0, ver |-> -1]      \* AUTH_DIR does not exist
EmptyDir == [owner |-> 0, ver |-> 0]    \* AUTH_DIR holds no file
\* qrSessions.get(id) is undefined
NoEntry ==
    [status |-> "undefined", qr |-> NoQr, session |-> NoSession,
     error |-> Null, sock |-> Null]

\* The ids makeId() gave out: two sessions, run concurrently.
QrIds == {1, 2}
QrPayloads == 1..MaxQr
Reasons == {NoCode, LoggedOut, RestartRequired, OtherCode}

VARIABLES
    qrSessions,     \* app.js: id -> entry {status, qr, session, error, sock}
    flowPc,         \* app.js: where startQrFlow(id) stands
    qsSock,         \* app.js: the library socket startQrFlow(id) made
    qsTimer,        \* app.js: the safety timeout of startQrFlow(id)
    qsEndCalls,     \* app.js: how often sock.end() ran on that socket
    qsFirstEnd,     \* app.js: the callback that ran sock.end() first
    authDir,        \* app.js: content of AUTH_DIR, shared by every flow
    lastStatus,     \* app.js: the last response of GET /qr-status
    lastCreds,      \* index.js: last response of GET /api/session/creds
    csPc,           \* app.js: where generateCodeSession stands
    csFinished,     \* app.js: `finished` of generateCodeSession
    csOutcome,      \* app.js: how the promise `done` was settled
    csSock,         \* app.js: the socket generateCodeSession made
    csEndPending,   \* app.js: 500 ms timers of `open` still to call end()
    csTimer,        \* app.js: the 3-minute timer of generateCodeSession
    csResponses     \* app.js: responses sent to the /code-session request


VARIABLES
    sessionResults,     \* index.js: sessionId -> short code
    codeFiles,          \* index.js: codes/<code>.json, the stored creds
    sessCreds,          \* index.js: sessions/<id>/creds.json, by version
    sentSessionToSelf,  \* index.js: sessions whose code was sent
    sending,            \* index.js: sendMessage calls still pending
    sendCalls,          \* index.js: sendMessage calls made
    routeSock,          \* index.js: the socket the route listens on
    extraSocks,         \* index.js: sockets made by a restart
    createCalls,        \* index.js: createSocket calls per session
    lastPoll,           \* index.js: last body of GET /api/session/result
    qStage, qAnswered, qTimer, qResponses, qRenders,    \* GET /api/session/qr
    pStage, pPhone, pAnswered, pRequested, pTimer,      \* GET /api/session/pair
    pResponses, pRpc, pRpcCalls,
    pReported,          \* connection states the pair socket has reported
    pDetails,           \* index.js: `details` of the 500 pair_code_error
    storeCall,          \* index.js: per session, the last direct call of
                        \* storeSessionAndCode and what it returned
    pRaw,               \* index.js: what requestPairingCode returned last
    pCode               \* index.js: `code` of the 200 response of /pair

qsVars == <<qrSessions, flowPc, qsSock, qsTimer, qsEndCalls, qsFirstEnd,
           authDir>>
storeVars == <<sessionResults, codeFiles, sessCreds, sentSessionToSelf,
               sending, sendCalls>>
sockVars == <<routeSock, extraSocks, createCalls>>
qVars == <<qStage, qAnswered, qTimer, qResponses, qRenders>>
pVars == <<pStage, pPhone, pAnswered, pRequested, pTimer, pResponses,
           pRpc, pRpcCalls, pReported>>
callVars == <<storeCall, pRaw, pCode, pDetails>>
apiVars == <<storeVars, sockVars, lastPoll, qVars, pVars, callVars>>
pollVars == <<lastStatus, lastCreds>>
csVars == <<csPc, csFinished, csOutcome, csSock, csEndPending, csTimer,
           csResponses>>
appVars == <<qsVars, pollVars, csVars>>
\* What the startQrFlow actions leave alone.
offQsVars == <<pollVars, csVars, apiVars>>
\* What the generateCodeSession actions leave alone, AUTH_DIR apart.
offCsVars == <<qrSessions, flowPc, qsSock, qsTimer, qsEndCalls, qsFirstEnd,
              pollVars, apiVars>>
vars == <<appVars, apiVars>>

\* ------------------------------------------------ src/public/app.js

\* What the library may put in one connection.update of a live socket.
Updates ==
    { u \in [qr : {NoQr} \cup QrPayloads,
             connection : {Null, "connecting", "open", "close"},
             code : Reasons] :
        /\ u.connection # "close" => u.code = NoCode
        /\ u.connection = Null => u.qr # NoQr }

\* The one report of a socket the program ended: a close, no QR.
CloseReports == { u \in Updates : u.connection = "close" /\ u.qr = NoQr }


\* authFolderToSessionString: prefix + encoding of every file's content.
DirExists(dir) == dir # NoDir

authFolderToSessionString(dir) == <<SESSION_PREFIX, dir.owner, dir.ver>>

\* POST /qr-start: the fresh registry entry.
NewEntry ==
    [status |-> "starting", qr |-> NoQr, session |-> NoSession,
     error |-> Null, sock |-> Null]

\* OnQr keeping the first payload it stored.
OnQrKeepFirst(e, u) ==
    IF u.qr # NoQr
    THEN [e EXCEPT !.qr = IF e.qr = NoQr THEN u.qr ELSE e.qr, !.status = "qr"]
    ELSE e

\* connection.update, `if (qr)`.
OnQr(e, u) ==
    IF u.qr # NoQr THEN [e EXCEPT !.qr = u.qr, !.status = "qr"] ELSE e

\* connection.update, `if (connection === 'open')`.
OnOpen(e, u, dir) ==
    IF u.connection = "open"
    THEN IF DirExists(dir)
         THEN [e EXCEPT !.session = authFolderToSessionString(dir),
                        !.status = "done", !.sock = "deleted"]
         ELSE [e EXCEPT !.error = "Auth folder does not exist. Login may have failed.",
                        !.status = "error", !.sock = "deleted"]
    ELSE e

CloseMessage(code) ==
    IF code = LoggedOut THEN "Logged out / device removed by WhatsApp"
    ELSE IF code = NoCode \/ code = RestartRequired
         THEN "Connection closed (restart required / unknown)"
         ELSE "Connection closed with code"

\* OnClose without the `if (!e.session)` guard.
OnCloseUnguarded(e, u) ==
    IF u.connection = "close"
    THEN [e EXCEPT !.status = "error", !.error = CloseMessage(u.code),
                   !.sock = "deleted"]
    ELSE e

\* connection.update, `if (connection === 'close')`.
OnClose(e, u) ==
    IF u.connection = "close"
    THEN IF e.session = NoSession
         THEN [e EXCEPT !.status = "error", !.error = CloseMessage(u.code),
                        !.sock = "deleted"]
         ELSE [e EXCEPT !.sock = "deleted"]
    ELSE e

\* The whole connection.update handler of startQrFlow.
HandleUpdate(e, u, dir) == OnClose(OnOpen(OnQr(e, u), u, dir), u)

\* OnTimeout without the `if (e.status === 'done') return`.
OnTimeoutNoDoneCheck(e) ==
    [e EXCEPT !.status = "expired",
              !.error = "Timed out waiting for scan/login",
              !.sock = "deleted"]

\* The safety timeout's callback.
OnTimeout(e) ==
    IF e.status = "done" THEN e
    ELSE [e EXCEPT !.status = "expired",
                   !.error = "Timed out waiting for scan/login",
                   !.sock = "deleted"]

\* POST /qr-start up to the first await of startQrFlow: the entry is
\* registered and AUTH_DIR removed.
QrStart(id) ==
    /\ qrSessions[id] = NoEntry
    /\ \A j \in QrIds : j < id => qrSessions[j] # NoEntry
    /\ qrSessions' = [qrSessions EXCEPT ![id] = NewEntry]
    /\ flowPc' = [flowPc EXCEPT ![id] = "awaiting"]
    /\ authDir' = NoDir
    /\ UNCHANGED <<qsSock, qsTimer, qsEndCalls, qsFirstEnd>>
    /\ UNCHANGED offQsVars

\* startQrFlow after its awaits: useMultiFileAuthState made AUTH_DIR, the
\* socket exists, the handlers are on and the timer is armed.
StartQrFlowResume(id) ==
    /\ flowPc[id] = "awaiting"
    /\ flowPc' = [flowPc EXCEPT ![id] = "attached"]
    /\ authDir' = IF authDir = NoDir THEN EmptyDir ELSE authDir
    /\ qsSock' = [qsSock EXCEPT ![id] = "live"]
    /\ qrSessions' = [qrSessions EXCEPT ![id].sock = "sock",
                                        ![id].status = "connecting"]
    /\ qsTimer' = [qsTimer EXCEPT ![id] = "armed"]
    /\ UNCHANGED <<qsEndCalls, qsFirstEnd>>
    /\ UNCHANGED offQsVars

\* startQrFlow rejects (useMultiFileAuthState or fetchLatestBaileysVersion
\* threw): the .catch of POST /qr-start.
StartQrFlowReject(id) ==
    /\ flowPc[id] = "awaiting"
    /\ flowPc' = [flowPc EXCEPT ![id] = "rejected"]
    /\ qrSessions' = [qrSessions EXCEPT ![id].status = "error",
                                        ![id].error = "startQrFlow failed"]
    /\ UNCHANGED <<qsSock, qsTimer, qsEndCalls, qsFirstEnd, authDir>>
    /\ UNCHANGED offQsVars

\* creds.update -> saveCreds: the socket's credentials land in AUTH_DIR.
QrCredsUpdate(id) ==
    /\ qsSock[id] = "live"
    /\ authDir # NoDir
    /\ (authDir.owner = id) => authDir.ver < MaxVer
    /\ authDir' = [owner |-> id,
                   ver |-> IF authDir.owner = id THEN authDir.ver + 1 ELSE 1]
    /\ UNCHANGED <<qrSessions, flowPc, qsSock, qsTimer, qsEndCalls,
                   qsFirstEnd>>
    /\ UNCHANGED offQsVars

\* The socket after the handler ran on update u: `open` and `close` both
\* call sock.end().
SockAfterUpdate(s, u) ==
    IF u.connection = "close" THEN "ended"
    ELSE IF u.connection = "open" /\ s = "live" THEN "ending"
    ELSE s

\* The library reports update u on the socket of session id.
QrConnectionUpdate(id, u) ==
    /\ \/ qsSock[id] = "live" /\ u \in Updates
       \/ qsSock[id] = "ending" /\ u \in CloseReports
    /\ qrSessions' = [qrSessions EXCEPT
                        ![id] = HandleUpdate(qrSessions[id], u, authDir)]
    /\ qsSock' = [qsSock EXCEPT ![id] = SockAfterUpdate(qsSock[id], u)]
    /\ qsEndCalls' = [qsEndCalls EXCEPT
                        ![id] = @ + (IF u.connection = "open" THEN 1 ELSE 0)
                                  + (IF u.connection = "close" THEN 1 ELSE 0)]
    /\ qsFirstEnd' = [qsFirstEnd EXCEPT
                        ![id] = IF @ = "none" /\ u.connection \in {"open", "close"}
                                THEN u.connection ELSE @]
    /\ UNCHANGED <<flowPc, qsTimer, authDir>>
    /\ UNCHANGED offQsVars

\* The safety timeout fires (it is never cleared).
QrTimeout(id) ==
    /\ qsTimer[id] = "armed"
    /\ qsTimer' = [qsTimer EXCEPT ![id] = "fired"]
    /\ qrSessions' = [qrSessions EXCEPT ![id] = OnTimeout(qrSessions[id])]
    /\ IF qrSessions[id].status # "done" /\ qrSessions[id].sock = "sock"
       THEN /\ qsSock' = [qsSock EXCEPT
                            ![id] = IF @ = "live" THEN "ending" ELSE @]
            /\ qsEndCalls' = [qsEndCalls EXCEPT ![id] = @ + 1]
            /\ qsFirstEnd' = [qsFirstEnd EXCEPT
                                ![id] = IF @ = "none" THEN "timer" ELSE @]
       ELSE UNCHANGED <<qsSock, qsEndCalls, qsFirstEnd>>
    /\ UNCHANGED <<flowPc, authDir>>
    /\ UNCHANGED offQsVars

\* The id of a /qr-status query: empty after trim, or one makeId never
\* gave out.
MissingId == 0
UnknownId == 9
StatusIds == QrIds \cup {MissingId, UnknownId}

\* qrSessions.get(id).
EntryOf(sessions, id) == IF id \in QrIds THEN sessions[id] ELSE NoEntry

\* No /qr-status response yet.
NoResponse ==
    [id |-> MissingId, http |-> 0, ok |-> FALSE, status |-> Null,
     qr |-> NoQr, session |-> NoSession, error |-> Null]

\* GET /qr-status: status code and body.
QrStatusResponse(sessions, id) ==
    IF id = MissingId
    THEN [NoResponse EXCEPT !.http = 400, !.error = "Missing id"]
    ELSE IF EntryOf(sessions, id) = NoEntry
    THEN [NoResponse EXCEPT !.id = id, !.http = 404,
                            !.error = "Unknown or expired QR session id"]
    ELSE [id |-> id, http |-> 200, ok |-> TRUE,
          status |-> EntryOf(sessions, id).status,
          qr |-> EntryOf(sessions, id).qr,
          session |-> EntryOf(sessions, id).session,
          error |-> EntryOf(sessions, id).error]

QrStatus(id) ==
    /\ lastStatus' = QrStatusResponse(qrSessions, id)
    /\ UNCHANGED <<qsVars, lastCreds, csVars, apiVars>>

\* ------------------------- src/public/app.js: GET /code-session

\* The owner tag of the credential files generateCodeSession's socket saves.
CodeId == 3

\* `done` is not settled / resolved with {session} / rejected with an error.
\* The messages of the Errors requestPairingCode throws: none, or one.
RpcErrors == {"", "rate-overlimit"}

\* `err.message || String(err)` of an Error with the given message.
ErrorText(message) == IF message = "" THEN "Error" ELSE message

Pending == [kind |-> "pending", session |-> NoSession, error |-> Null]
Resolved(session) ==
    [kind |-> "resolved", session |-> session, error |-> Null]
Rejected(message) ==
    [kind |-> "rejected", session |-> NoSession, error |-> message]

\* SafeSettle without the `if (finished) return`.
SafeSettleLast(finished, outcome, new) == new

\* safeResolve / safeReject: the first settlement wins.
SafeSettle(finished, outcome, new) == IF finished THEN outcome ELSE new

\* connection.update of generateCodeSession, `if (connection === 'open')`.
CodeOnOpen(finished, outcome, u, dir) ==
    IF u.connection = "open"
    THEN IF DirExists(dir)
         THEN SafeSettle(finished, outcome,
                         Resolved(authFolderToSessionString(dir)))
         ELSE SafeSettle(finished, outcome,
                  Rejected("Auth folder does not exist. Login may have failed."))
    ELSE outcome

\* CodeOnClose rejecting whenever no token was produced.
CodeOnCloseNoToken(finished, outcome, u) ==
    IF u.connection = "close" /\ outcome.kind # "resolved"
    THEN Rejected(CloseMessage(u.code))
    ELSE outcome

\* connection.update of generateCodeSession, `if (connection === 'close')`
\* with its `if (!finished)`.
CodeOnClose(finished, outcome, u) ==
    IF u.connection = "close" /\ ~finished
    THEN SafeSettle(finished, outcome, Rejected(CloseMessage(u.code)))
    ELSE outcome

\* The response of GET /code-session to a settled generateCodeSession.
CodeResponse(outcome) ==
    IF outcome.kind = "resolved"
    THEN [http |-> 200, session |-> outcome.session, error |-> Null]
    ELSE [http |-> 500, session |-> NoSession,
          error |-> ErrorText(outcome.error)]

\* The .then/.catch of the route run once: when generateCodeSession has
\* returned `done` and `done` is settled.
Settled(pc, outcome) == pc = "returned" /\ outcome.kind # "pending"

Deliver(responses, pc, outcome, pc2, outcome2) ==
    IF Settled(pc2, outcome2) /\ ~Settled(pc, outcome)
    THEN Append(responses, CodeResponse(outcome2))
    ELSE responses

\* The phone queries: missing, blank, a number.
CodeQueries == {<<>>, <<" ">>, <<"4", "9", "1", "5">>}

\* GET /code-session up to the first await of generateCodeSession: 400 on
\* an empty phone, else AUTH_DIR is removed.
CodeRequest(query) ==
    /\ csPc = "idle"
    /\ IF query = <<>> \/ \A i \in 1..Len(query) : query[i] = " "
       THEN /\ csPc' = "refused"
            /\ csResponses' =
                  Append(csResponses,
                         [http |-> 400, session |-> NoSession,
                          error |-> "Missing phone query param"])
            /\ UNCHANGED authDir
       ELSE /\ csPc' = "awaiting"
            /\ authDir' = NoDir
            /\ UNCHANGED csResponses
    /\ UNCHANGED <<csFinished, csOutcome, csSock, csEndPending, csTimer>>
    /\ UNCHANGED offCsVars

\* After the awaits: AUTH_DIR exists, the socket is made, the handlers are
\* on and requestPairingCode is called.
CodeSetupResume ==
    /\ csPc = "awaiting"
    /\ csPc' = "rpc"
    /\ authDir' = IF authDir = NoDir THEN EmptyDir ELSE authDir
    /\ csSock' = "live"
    /\ UNCHANGED <<csFinished, csOutcome, csEndPending, csTimer, csResponses>>
    /\ UNCHANGED offCsVars

\* useMultiFileAuthState or fetchLatestBaileysVersion threw: the promise of
\* generateCodeSession rejects and the route's .catch answers 500.
CodeSetupThrow ==
    /\ csPc = "awaiting"
    /\ csPc' = "threw"
    /\ csResponses' =
          Append(csResponses,
                 [http |-> 500, session |-> NoSession,
                  error |-> "generateCodeSession failed"])
    /\ UNCHANGED <<csFinished, csOutcome, csSock, csEndPending, csTimer,
                   authDir>>
    /\ UNCHANGED offCsVars

\* creds.update -> saveCreds.
CodeCredsUpdate ==
    /\ csSock = "live"
    /\ authDir # NoDir
    /\ (authDir.owner = CodeId) => authDir.ver < MaxVer
    /\ authDir' = [owner |-> CodeId,
                   ver |-> IF authDir.owner = CodeId
                           THEN authDir.ver + 1 ELSE 1]
    /\ UNCHANGED csVars
    /\ UNCHANGED offCsVars

\* The library reports update u on the socket of generateCodeSession.
CodeConnectionUpdate(u) ==
    /\ u.qr = NoQr
    /\ \/ csSock = "live" /\ u \in Updates
       \/ csSock = "ending" /\ u \in CloseReports
    /\ u.connection = "open" => csEndPending < MaxEndTimers
    /\ csOutcome' = CodeOnClose(csFinished,
                                CodeOnOpen(csFinished, csOutcome, u, authDir),
                                u)
    /\ csFinished' = (csFinished \/ u.connection \in {"open", "close"})
    /\ csEndPending' = IF u.connection = "open"
                       THEN csEndPending + 1 ELSE csEndPending
    /\ csSock' = IF u.connection = "close" THEN "ended" ELSE csSock
    /\ csResponses' = Deliver(csResponses, csPc, csOutcome, csPc, csOutcome')
    /\ UNCHANGED <<csPc, csTimer, authDir>>
    /\ UNCHANGED offCsVars

\* The 500 ms timer set on `open` calls sock.end().
CodeEndTimer ==
    /\ csEndPending > 0
    /\ csEndPending' = csEndPending - 1
    /\ csSock' = IF csSock = "live" THEN "ending" ELSE csSock
    /\ UNCHANGED <<csPc, csFinished, csOutcome, csTimer, csResponses, authDir>>
    /\ UNCHANGED offCsVars

\* requestPairingCode returned: the 3-minute timer is set and `done` is
\* returned to the route.
CodeRpcReturn ==
    /\ csPc = "rpc"
    /\ csPc' = "returned"
    /\ csTimer' = "armed"
    /\ csResponses' =
          Deliver(csResponses, csPc, csOutcome, "returned", csOutcome)
    /\ UNCHANGED <<csFinished, csOutcome, csSock, csEndPending, authDir>>
    /\ UNCHANGED offCsVars

\* CodeRpcThrow with a catch that drops the error.
CodeRpcThrowDropped(e) ==
    /\ csPc = "rpc"
    /\ csPc' = "returned"
    /\ csTimer' = "armed"
    /\ csResponses' =
          Deliver(csResponses, csPc, csOutcome, "returned", csOutcome)
    /\ UNCHANGED <<csFinished, csOutcome, csSock, csEndPending, authDir>>
    /\ UNCHANGED offCsVars

\* requestPairingCode threw an Error with message e: safeReject(e), then
\* as above.
CodeRpcThrow(e) ==
    /\ csPc = "rpc"
    /\ csPc' = "returned"
    /\ csTimer' = "armed"
    /\ csOutcome' = SafeSettle(csFinished, csOutcome, Rejected(e))
    /\ csFinished' = TRUE
    /\ csResponses' =
          Deliver(csResponses, csPc, csOutcome, "returned", csOutcome')
    /\ UNCHANGED <<csSock, csEndPending, authDir>>
    /\ UNCHANGED offCsVars

\* The 3-minute timer: safeReject(timeout), sock.end().
CodeTimeout ==
    /\ csTimer = "armed"
    /\ csTimer' = "fired"
    /\ csOutcome' = SafeSettle(csFinished, csOutcome,
                               Rejected("Timed out waiting for login / scan"))
    /\ csFinished' = TRUE
    /\ csSock' = IF csSock = "live" THEN "ending" ELSE csSock
    /\ csResponses' = Deliver(csResponses, csPc, csOutcome, csPc, csOutcome')
    /\ UNCHANGED <<csPc, csEndPending, authDir>>
    /\ UNCHANGED offCsVars

\* ------------------------------------------------------ src/index.js

QrSid == "S"            \* sessionId of the GET /api/session/qr request
PairSid == "P"          \* sessionId of the GET /api/session/pair request
Unknown == "X"          \* an id no request was given
ApiIds == {QrSid, PairSid}
PollIds == ApiIds \cup {Unknown}

Codes == 1..MaxCodes
NoShort == 0            \* sessionResults.get(id) is undefined
NoFile == <<>>          \* codes/<code>.json does not exist

\* creds.json of session s once saveCreds wrote version v.
CredsJson(s, v) == <<s, v>>

\* generateShortCode: nanoid draws a code no session holds yet.
generateShortCode(sr) == { c \in Codes : \A s \in ApiIds : sr[s] # c }

\* StoreResults drawing a new code on every call.
StoreResultsAlwaysNew(sr, s, c) == [sr EXCEPT ![s] = c]

\* storeSessionAndCode, lines 72-76: reuse the session's code or set one.
StoreResults(sr, s, c) ==
    IF sr[s] = NoShort THEN [sr EXCEPT ![s] = c] ELSE sr

\* storeSessionAndCode registering a code before it looks for creds.json.
storeSessionAndCodeEager(s, v, c, ok) ==
    /\ sessionResults' = StoreResults(sessionResults, s, c)
    /\ codeFiles' = IF ok /\ v # 0
                    THEN [codeFiles EXCEPT
                            ![StoreResults(sessionResults, s, c)[s]] =
                                CredsJson(s, v)]
                    ELSE codeFiles

\* storeSessionAndCode(sessionId, sessionPath) with creds.json at version
\* v (0: not there), c the code generateShortCode would draw and ok
\* whether writeFileSync succeeds.
storeSessionAndCode(s, v, c, ok) ==
    IF v = 0
    THEN UNCHANGED <<sessionResults, codeFiles>>
    ELSE /\ sessionResults' = StoreResults(sessionResults, s, c)
         /\ codeFiles' = IF ok
                         THEN [codeFiles EXCEPT
                                 ![StoreResults(sessionResults, s, c)[s]] =
                                     CredsJson(s, v)]
                         ELSE codeFiles

\* StoreReturn handing back the code just drawn, not the session's code.
StoreReturnDrawn(s, v, c, ok) == IF v = 0 \/ ~ok THEN NoShort ELSE c

\* What storeSessionAndCode returns.
StoreReturn(s, v, c, ok) ==
    IF v = 0 \/ ~ok THEN NoShort ELSE StoreResults(sessionResults, s, c)[s]

\* OnCredsUpdate saving the credentials without storing them.
OnCredsUpdateSaveOnly(s) ==
    /\ sessCreds[s] < MaxVer
    /\ sessCreds' = [sessCreds EXCEPT ![s] = @ + 1]
    /\ UNCHANGED <<sessionResults, codeFiles>>
    /\ UNCHANGED <<sentSessionToSelf, sending, sendCalls>>

\* createSocket's creds.update handler: saveCreds, then the store.
OnCredsUpdate(s) ==
    /\ sessCreds[s] < MaxVer
    /\ sessCreds' = [sessCreds EXCEPT ![s] = @ + 1]
    /\ \E c \in generateShortCode(sessionResults), ok \in BOOLEAN :
          storeSessionAndCode(s, sessCreds[s] + 1, c, ok)
    /\ UNCHANGED <<sentSessionToSelf, sending, sendCalls>>

\* saveCreds on open: creds.json exists afterwards.
SavedVersion(v) == IF v = 0 THEN 1 ELSE v

\* `if (shortCode && !sentSessionToSelf.has(sessionId))` with a target JID.
ShouldSend(s, shortCode, hasJid) ==
    shortCode # NoShort /\ s \notin sentSessionToSelf /\ hasJid

\* createSocket's connection.update handler on `open`, up to the await of
\* sendMessage.  hasJid: ownerJid || sock.user?.id is defined.
OnOpenCreate(s) ==
    /\ sessCreds' = [sessCreds EXCEPT ![s] = SavedVersion(@)]
    /\ \E c \in generateShortCode(sessionResults), ok \in BOOLEAN,
          hasJid \in (IF s = PairSid THEN {TRUE} ELSE BOOLEAN) :
          /\ storeSessionAndCode(s, SavedVersion(sessCreds[s]), c, ok)
          /\ IF ShouldSend(s, StoreReturn(s, SavedVersion(sessCreds[s]), c, ok),
                           hasJid)
             THEN /\ sendCalls[s] < MaxSends
                  /\ sending' = [sending EXCEPT ![s] = @ + 1]
                  /\ sendCalls' = [sendCalls EXCEPT ![s] = @ + 1]
             ELSE UNCHANGED <<sending, sendCalls>>
    /\ UNCHANGED sentSessionToSelf

\* sendMessage resolved: line 131.
SendDone(s) ==
    /\ sending[s] > 0
    /\ sending' = [sending EXCEPT ![s] = @ - 1]
    /\ sentSessionToSelf' = sentSessionToSelf \cup {s}
    /\ UNCHANGED <<sessionResults, codeFiles, sessCreds, sendCalls>>
    /\ UNCHANGED <<appVars, callVars, sockVars, lastPoll, qVars, pVars>>

\* sendMessage threw: the catch of line 135.
SendFail(s) ==
    /\ sending[s] > 0
    /\ sending' = [sending EXCEPT ![s] = @ - 1]
    /\ UNCHANGED <<sessionResults, codeFiles, sessCreds, sendCalls,
                   sentSessionToSelf>>
    /\ UNCHANGED <<appVars, callVars, sockVars, lastPoll, qVars, pVars>>

\* No call of storeSessionAndCode was made yet.
NoCall == [calls |-> 0, version |-> -1, ok |-> FALSE, ret |-> NoShort]

\* saveCreds alone: creds.json of session s gets its next version.
SaveCreds(s) ==
    /\ sessCreds[s] < MaxVer
    /\ sessCreds' = [sessCreds EXCEPT ![s] = @ + 1]
    /\ UNCHANGED <<sessionResults, codeFiles, sentSessionToSelf, sending,
                   sendCalls, storeCall, pRaw, pCode, pDetails>>
    /\ UNCHANGED <<appVars, sockVars, lastPoll, qVars, pVars>>

\* storeSessionAndCode(s, sessionPath) called as it stands, whatever
\* creds.json holds: c is the code nanoid would give, ok whether
\* writeFileSync succeeds.
StoreCall(s) ==
    /\ storeCall[s].calls < MaxStoreCalls
    /\ \E c \in generateShortCode(sessionResults), ok \in BOOLEAN :
          /\ storeSessionAndCode(s, sessCreds[s], c, ok)
          /\ storeCall' =
                [storeCall EXCEPT
                   ![s] = [calls |-> @.calls + 1,
                           version |-> sessCreds[s], ok |-> ok,
                           ret |-> StoreReturn(s, sessCreds[s], c, ok)]]
    /\ UNCHANGED <<sessCreds, sentSessionToSelf, sending, sendCalls>>
    /\ UNCHANGED <<pRaw, pCode, pDetails>>
    /\ UNCHANGED <<appVars, sockVars, lastPoll, qVars, pVars>>

HasLiveSocket(s) == routeSock[s] = "live" \/ extraSocks[s] > 0

\* creds.update on any live socket of session s.
ApiCredsUpdate(s) ==
    /\ HasLiveSocket(s)
    /\ OnCredsUpdate(s)
    /\ UNCHANGED <<appVars, callVars, sockVars, lastPoll, qVars, pVars>>

\* `open` on a socket made by a restart: only createSocket listens there.
RestartedOpen(s) ==
    /\ extraSocks[s] > 0
    /\ OnOpenCreate(s)
    /\ UNCHANGED <<appVars, callVars, sockVars, lastPoll, qVars, pVars>>

\* createSocket(sessionId, ...).catch(log) of a restart: one more call, and
\* a new socket unless useMultiFileAuthState threw.
RestartSocket(s) ==
    /\ createCalls' = [createCalls EXCEPT ![s] = @ + 1]
    /\ \E made \in BOOLEAN :
          extraSocks' = [extraSocks EXCEPT ![s] = IF made THEN @ + 1 ELSE @]

ClearTimeout(t) == IF t = "armed" THEN "cleared" ELSE t

\* GET /api/session/result/:id.
ResultBody(sr, id) ==
    IF id \in ApiIds /\ sr[id] # NoShort
    THEN [ready |-> TRUE, code |-> sr[id]]
    ELSE [ready |-> FALSE, code |-> NoShort]

\* JSON.parse of the text of a stored creds file.
ParseCreds(text) == [session |-> text[1], version |-> text[2]]

\* GET /api/session/creds/:code: 404 when codes/<code>.json is not there,
\* else the parsed content of the file.
CredsResponse(cf, code) ==
    IF code \notin Codes \/ cf[code] = NoFile
    THEN [http |-> 404, code |-> code, creds |-> NoFile]
    ELSE [http |-> 200, code |-> code, creds |-> ParseCreds(cf[code])]

PollResult(id) ==
    /\ lastPoll' = [lastPoll EXCEPT ![id] = ResultBody(sessionResults, id)]
    /\ UNCHANGED <<appVars, callVars, storeVars, sockVars, qVars, pVars>>

\* A code generateShortCode gave to no session, and the codes a client asks.
UnknownCode == MaxCodes + 1
PollCodes == Codes \cup {UnknownCode}

\* No GET /api/session/creds request was answered yet.
NoCredsResponse == [http |-> 0, code |-> NoShort, creds |-> NoFile]

\* GetCreds deleting the file it served.
GetCredsOnce(code) ==
    /\ lastCreds' = CredsResponse(codeFiles, code)
    /\ codeFiles' = [c \in Codes |-> IF c = code THEN NoFile ELSE codeFiles[c]]
    /\ UNCHANGED <<qsVars, lastStatus, csVars>>
    /\ UNCHANGED <<sessionResults, sessCreds, sentSessionToSelf, sending,
                   sendCalls, sockVars, lastPoll, qVars, pVars, callVars>>

\* GET /api/session/creds/:code.
GetCreds(code) ==
    /\ lastCreds' = CredsResponse(codeFiles, code)
    /\ UNCHANGED <<qsVars, lastStatus, csVars, apiVars>>

\* What the library may report on the route's socket in state sk.
Reportable(sk, u) ==
    \/ sk = "live" /\ u \in Updates
    \/ sk = "closing" /\ u \in CloseReports

\* The route's socket after update u: a reported close is its end.
RouteSockAfter(sk, u) == IF u.connection = "close" THEN "closed" ELSE sk

\* --- GET /api/session/qr

\* The request arrives: createSocket is called and awaited.  A run follows
\* one request, to /api/session/qr or to /api/session/pair: the two work on
\* the entries of their own sessionId and share no state.
QrRequest ==
    /\ qStage = "idle"
    /\ pStage = "idle"
    /\ qStage' = "creating"
    /\ createCalls' = [createCalls EXCEPT ![QrSid] = @ + 1]
    /\ UNCHANGED <<qAnswered, qTimer, qResponses, qRenders>>
    /\ UNCHANGED <<appVars, callVars, storeVars>>
    /\ UNCHANGED <<routeSock, extraSocks, lastPoll, pVars>>

\* createSocket resolved: the timer is armed and the handler attached.
QrSocketReady ==
    /\ qStage = "creating"
    /\ qStage' = "listening"
    /\ routeSock' = [routeSock EXCEPT ![QrSid] = "live"]
    /\ qTimer' = "armed"
    /\ UNCHANGED <<qAnswered, qResponses, qRenders>>
    /\ UNCHANGED <<appVars, callVars, storeVars>>
    /\ UNCHANGED <<extraSocks, createCalls, lastPoll, pVars>>

\* createSocket threw: the catch of line 217.
QrSocketFailed ==
    /\ qStage = "creating"
    /\ qStage' = "failed"
    /\ qResponses' = Append(qResponses, "500 internal_error")
    /\ UNCHANGED <<qAnswered, qTimer, qRenders>>
    /\ UNCHANGED <<appVars, callVars, storeVars, sockVars, lastPoll, pVars>>

\* The 60 s timer, lines 159-166.
QrTimerFire ==
    /\ qTimer = "armed"
    /\ qTimer' = "fired"
    /\ IF ~qAnswered
       THEN /\ qAnswered' = TRUE
            /\ qResponses' = Append(qResponses, "504 QR timeout")
            /\ routeSock' = [routeSock EXCEPT
                               ![QrSid] = IF @ = "live" THEN "closing" ELSE @]
       ELSE UNCHANGED <<qAnswered, qResponses, routeSock>>
    /\ UNCHANGED <<qStage, qRenders>>
    /\ UNCHANGED <<appVars, callVars, storeVars>>
    /\ UNCHANGED <<extraSocks, createCalls, lastPoll, pVars>>

\* The route's connection.update handler up to its first await or return,
\* lines 168-216.
QrRouteHandler(u) ==
    IF ~qAnswered /\ u.qr # NoQr
    THEN /\ qRenders < MaxRenders
         /\ qRenders' = qRenders + 1
         /\ UNCHANGED <<qStage, qAnswered, qTimer, qResponses>>
         /\ UNCHANGED <<extraSocks, createCalls>>
    ELSE IF u.connection = "close"
    THEN IF u.code = RestartRequired
         THEN /\ RestartSocket(QrSid)
              /\ UNCHANGED qVars
         ELSE IF ~qAnswered
         THEN /\ qAnswered' = TRUE
              /\ qTimer' = ClearTimeout(qTimer)
              /\ qResponses' = Append(qResponses, "500 connection_closed")
              /\ UNCHANGED <<qStage, qRenders>>
              /\ UNCHANGED <<extraSocks, createCalls>>
         ELSE UNCHANGED <<qVars, extraSocks, createCalls>>
    ELSE UNCHANGED <<qVars, extraSocks, createCalls>>

\* The library reports u on the socket of the QR request: createSocket's
\* handler and the route's handler both run.
QrRouteUpdate(u) ==
    /\ qStage = "listening"
    /\ Reportable(routeSock[QrSid], u)
    /\ IF u.connection = "open"
       THEN OnOpenCreate(QrSid)
       ELSE UNCHANGED storeVars
    /\ QrRouteHandler(u)
    /\ routeSock' = [routeSock EXCEPT ![QrSid] = RouteSockAfter(@, u)]
    /\ UNCHANGED <<appVars, callVars, lastPoll, pVars>>

\* QRCode.toDataURL resolved: lines 183-190.
QrRenderDone ==
    /\ qRenders > 0
    /\ qRenders' = qRenders - 1
    /\ qAnswered' = TRUE
    /\ qTimer' = ClearTimeout(qTimer)
    /\ qResponses' = Append(qResponses, "200 scan_pending")
    /\ UNCHANGED qStage
    /\ UNCHANGED <<appVars, callVars, storeVars, sockVars, lastPoll, pVars>>

\* QrRenderFail with `answered = true; clearTimeout(timeout)` done before
\* the await instead of after it.
QrRenderFailAnswered ==
    /\ qRenders > 0
    /\ qRenders' = qRenders - 1
    /\ qAnswered' = TRUE
    /\ qTimer' = ClearTimeout(qTimer)
    /\ UNCHANGED <<qStage, qResponses>>
    /\ UNCHANGED <<appVars, callVars, storeVars, sockVars, lastPoll, pVars>>

\* QRCode.toDataURL rejected: the handler's promise rejects, no response.
QrRenderFail ==
    /\ qRenders > 0
    /\ qRenders' = qRenders - 1
    /\ UNCHANGED <<qStage, qAnswered, qTimer, qResponses>>
    /\ UNCHANGED <<appVars, callVars, storeVars, sockVars, lastPoll, pVars>>

\* --- GET /api/session/pair

Digits == {"0", "1", "2", "3", "4", "5", "6", "7", "8", "9"}
DigitAt == <<"1", "2", "3", "4", "5", "6", "7", "8", "9", "0">>

\* A run of n digits.
DigitRun(n) == [i \in 1..n |-> DigitAt[((i - 1) % 10) + 1]]

\* String.prototype.trim.
RECURSIVE TrimLeft(_)
TrimLeft(str) ==
    IF str # <<>> /\ Head(str) = " " THEN TrimLeft(Tail(str)) ELSE str

RECURSIVE TrimRight(_)
TrimRight(str) ==
    IF str # <<>> /\ str[Len(str)] = " "
    THEN TrimRight(SubSeq(str, 1, Len(str) - 1))
    ELSE str

Trim(str) == TrimRight(TrimLeft(str))

IsDigit(ch) == ch \in Digits

\* StripNonDigits leaving the string as it is.
StripNothing(str) == str

\* rawPhone.replace(/[^\d]/g, '').
StripNonDigits(str) == SelectSeq(str, IsDigit)

MinPhoneLen == 8
MaxPhoneLen == 15

\* /^\d{8,15}$/.test(phone).
PhoneTest(phone) ==
    /\ Len(phone) >= MinPhoneLen
    /\ Len(phone) <= MaxPhoneLen
    /\ \A i \in 1..Len(phone) : IsDigit(phone[i])

\* The phone the handler works with, line 231-232.
PhoneOf(query) == StripNonDigits(Trim(query))

\* Query strings: an optional lead, digits, an optional separator, digits,
\* an optional trailing blank.
PhoneInputs ==
    { lead \o DigitRun(n) \o sep \o DigitRun(m) \o trail :
        lead \in {<<>>, <<"+">>, <<" ">>},
        n \in 0..MaxPhoneDigits,
        sep \in {<<>>, <<"-">>, <<"a">>},
        m \in 0..1,
        trail \in {<<>>, <<" ">>} }

\* The requests the server model follows through the pair flow.
ApiPhones == { DigitRun(7), DigitRun(8), <<"+">> \o DigitRun(12) }

\* The request arrives: validation, then createSocket is called.
PairRequest(query) ==
    /\ pStage = "idle"
    /\ qStage = "idle"
    /\ pPhone' = query
    /\ IF PhoneTest(PhoneOf(query))
       THEN /\ pStage' = "creating"
            /\ createCalls' = [createCalls EXCEPT ![PairSid] = @ + 1]
            /\ UNCHANGED pResponses
       ELSE /\ pStage' = "rejected"
            /\ pResponses' = Append(pResponses, "400 invalid_phone")
            /\ UNCHANGED createCalls
    /\ UNCHANGED <<pAnswered, pRequested, pTimer, pRpc, pRpcCalls, pReported>>
    /\ UNCHANGED <<appVars, callVars, storeVars>>
    /\ UNCHANGED <<routeSock, extraSocks, lastPoll, qVars>>

PairSocketReady ==
    /\ pStage = "creating"
    /\ pStage' = "listening"
    /\ routeSock' = [routeSock EXCEPT ![PairSid] = "live"]
    /\ pTimer' = "armed"
    /\ UNCHANGED <<pPhone, pAnswered, pRequested, pResponses, pRpc, pRpcCalls,
                   pReported>>
    /\ UNCHANGED <<appVars, callVars, storeVars>>
    /\ UNCHANGED <<extraSocks, createCalls, lastPoll, qVars>>

\* createSocket threw: the catch of line 331.
PairSocketFailed ==
    /\ pStage = "creating"
    /\ pStage' = "failed"
    /\ pResponses' = Append(pResponses, "500 pair_code_error")
    /\ UNCHANGED <<pPhone, pAnswered, pRequested, pTimer, pRpc, pRpcCalls,
                   pReported>>
    /\ UNCHANGED <<appVars, callVars, storeVars, sockVars, lastPoll, qVars>>

\* The 60 s timer, lines 252-259.
PairTimerFire ==
    /\ pTimer = "armed"
    /\ pTimer' = "fired"
    /\ IF ~pAnswered
       THEN /\ pAnswered' = TRUE
            /\ pResponses' = Append(pResponses, "504 pair_timeout")
            /\ routeSock' = [routeSock EXCEPT
                               ![PairSid] = IF @ = "live" THEN "closing" ELSE @]
       ELSE UNCHANGED <<pAnswered, pResponses, routeSock>>
    /\ UNCHANGED <<pStage, pPhone, pRequested, pRpc, pRpcCalls, pReported>>
    /\ UNCHANGED <<appVars, callVars, storeVars>>
    /\ UNCHANGED <<extraSocks, createCalls, lastPoll, qVars>>

\* ShouldRequest without the one-shot flag.
ShouldRequestAlways(requested, u) == u.connection \in {"connecting", "open"}

\* `!requested && (connection === 'connecting' || connection === 'open')`.
ShouldRequest(requested, u) ==
    ~requested /\ u.connection \in {"connecting", "open"}

\* The route's connection.update handler up to its await or return,
\* lines 261-330.
PairRouteHandler(u) ==
    IF ShouldRequest(pRequested, u)
    THEN /\ pRpcCalls < MaxRpcCalls
         /\ pRequested' = TRUE
         /\ pRpc' = pRpc + 1
         /\ pRpcCalls' = pRpcCalls + 1
         /\ UNCHANGED <<pStage, pPhone, pAnswered, pTimer, pResponses>>
         /\ UNCHANGED <<extraSocks, createCalls>>
    ELSE IF u.connection = "close"
    THEN IF u.code = RestartRequired
         THEN /\ RestartSocket(PairSid)
              /\ UNCHANGED <<pStage, pPhone, pAnswered, pRequested, pTimer,
                             pResponses, pRpc, pRpcCalls>>
         ELSE IF ~pAnswered
         THEN /\ pAnswered' = TRUE
              /\ pTimer' = ClearTimeout(pTimer)
              /\ pResponses' = Append(pResponses, "500 connection_closed")
              /\ UNCHANGED <<pStage, pPhone, pRequested, pRpc, pRpcCalls>>
              /\ UNCHANGED <<extraSocks, createCalls>>
         ELSE UNCHANGED <<pStage, pPhone, pAnswered, pRequested, pTimer,
                    pResponses, pRpc, pRpcCalls, extraSocks, createCalls>>
    ELSE UNCHANGED <<pStage, pPhone, pAnswered, pRequested, pTimer,
                    pResponses, pRpc, pRpcCalls, extraSocks, createCalls>>

\* The library reports u on the socket of the pair request.
PairRouteUpdate(u) ==
    /\ pStage = "listening"
    /\ u.qr = NoQr
    /\ Reportable(routeSock[PairSid], u)
    /\ IF u.connection = "open"
       THEN OnOpenCreate(PairSid)
       ELSE UNCHANGED storeVars
    /\ PairRouteHandler(u)
    /\ pReported' = pReported \cup {u.connection}
    /\ routeSock' = [routeSock EXCEPT ![PairSid] = RouteSockAfter(@, u)]
    /\ UNCHANGED <<appVars, callVars, lastPoll, qVars>>

\* The characters of a pairing code; line terminators are the characters
\* the `.` of a regular expression does not match.
CodeChars == {"2", "K"}
LineTerminators == {"\n", "\r"}
IsDotChar(ch) == ch \notin LineTerminators
NoText == <<>>

\* How many characters one `.{1,4}` takes at the head of str.
DotRun(str) ==
    LET fits == { k \in 0..GroupLen :
                    /\ k <= Len(str)
                    /\ \A i \in 1..k : IsDotChar(str[i]) }
    IN  CHOOSE k \in fits : \A j \in fits : j <= k

\* code.match(/.{1,4}/g): the matches left to right, none when there is
\* no match (null).
RECURSIVE MatchGroups(_)
MatchGroups(str) ==
    IF str = <<>> THEN <<>>
    ELSE LET n == DotRun(str)
         IN  IF n = 0 THEN MatchGroups(Tail(str))
             ELSE <<SubSeq(str, 1, n)>>
                     \o MatchGroups(SubSeq(str, n + 1, Len(str)))

\* Array.prototype.join('-').
RECURSIVE JoinDash(_)
JoinDash(groups) ==
    IF groups = <<>> THEN <<>>
    ELSE IF Len(groups) = 1 THEN groups[1]
    ELSE groups[1] \o <<"-">> \o JoinDash(Tail(groups))

\* FormatPairCode leaving the code as the library returned it.
FormatNone(code) == code

\* Lines 278-280: `if (code && typeof code === 'string')
\*                   code = code.match(/.{1,4}/g)?.join('-') || code`.
FormatPairCode(code) ==
    IF code = <<>> THEN code
    ELSE LET groups == MatchGroups(code)
         IN  IF groups = <<>> \/ JoinDash(groups) = <<>>
             THEN code
             ELSE JoinDash(groups)

\* Every string over CodeChars of length n.
CodesOfLen(n) == [1..n -> CodeChars]

\* What requestPairingCode may return: strings of up to MaxCodeLen
\* characters; the server model follows one code of the usual length.
RpcCodes == UNION { CodesOfLen(n) : n \in 0..MaxCodeLen }
ApiRpcCodes == { [i \in 1..(GroupLen + GroupLen) |->
                    IF i % 2 = 1 THEN "2" ELSE "K"] }

\* PairRpcReturn without the `if (!answered)` of line 282.
PairRpcReturnUnguarded(raw) ==
    /\ pRpc > 0
    /\ pRpc' = pRpc - 1
    /\ pAnswered' = TRUE
    /\ pTimer' = ClearTimeout(pTimer)
    /\ pResponses' = Append(pResponses, "200 pair_code_generated")
    /\ pRaw' = raw
    /\ pCode' = FormatPairCode(raw)
    /\ UNCHANGED <<pStage, pPhone, pRequested, pRpcCalls, pReported>>
    /\ UNCHANGED <<appVars, storeCall, pDetails, storeVars, sockVars, lastPoll,
                   qVars>>

\* requestPairingCode returned raw: lines 278-292.
PairRpcReturn(raw) ==
    /\ pRpc > 0
    /\ pRpc' = pRpc - 1
    /\ pRaw' = raw
    /\ IF ~pAnswered
       THEN /\ pAnswered' = TRUE
            /\ pTimer' = ClearTimeout(pTimer)
            /\ pResponses' = Append(pResponses, "200 pair_code_generated")
            /\ pCode' = FormatPairCode(raw)
       ELSE UNCHANGED <<pAnswered, pTimer, pResponses, pCode>>
    /\ UNCHANGED <<pStage, pPhone, pRequested, pRpcCalls, pReported>>
    /\ UNCHANGED <<appVars, storeCall, pDetails, storeVars, sockVars, lastPoll,
                   qVars>>

\* requestPairingCode threw an Error with message e: lines 293-303.
PairRpcThrow(e) ==
    /\ pRpc > 0
    /\ pRpc' = pRpc - 1
    /\ IF ~pAnswered
       THEN /\ pAnswered' = TRUE
            /\ pTimer' = ClearTimeout(pTimer)
            /\ pResponses' = Append(pResponses, "500 pair_code_error")
            /\ pDetails' = ErrorText(e)
       ELSE UNCHANGED <<pAnswered, pTimer, pResponses, pDetails>>
    /\ UNCHANGED <<pStage, pPhone, pRequested, pRpcCalls, pReported>>
    /\ UNCHANGED <<appVars, storeCall, pRaw, pCode>>
    /\ UNCHANGED <<storeVars, sockVars, lastPoll, qVars>>

\* ------------------------------------------------------ specifications

QsInit ==
    /\ qrSessions = [id \in QrIds |-> NoEntry]
    /\ flowPc = [id \in QrIds |-> "idle"]
    /\ qsSock = [id \in QrIds |-> "none"]
    /\ qsTimer = [id \in QrIds |-> "unset"]
    /\ qsEndCalls = [id \in QrIds |-> 0]
    /\ qsFirstEnd = [id \in QrIds |-> "none"]
    /\ authDir = NoDir
    /\ lastStatus = NoResponse
    /\ csPc = "idle"
    /\ csFinished = FALSE
    /\ csOutcome = Pending
    /\ csSock = "none"
    /\ csEndPending = 0
    /\ csTimer = "unset"
    /\ csResponses = <<>>

ApiInit ==
    /\ sessionResults = [s \in ApiIds |-> NoShort]
    /\ codeFiles = [c \in Codes |-> NoFile]
    /\ sessCreds = [s \in ApiIds |-> 0]
    /\ sentSessionToSelf = {}
    /\ sending = [s \in ApiIds |-> 0]
    /\ sendCalls = [s \in ApiIds |-> 0]
    /\ routeSock = [s \in ApiIds |-> "none"]
    /\ extraSocks = [s \in ApiIds |-> 0]
    /\ createCalls = [s \in ApiIds |-> 0]
    /\ lastPoll = [id \in PollIds |-> [ready |-> FALSE, code |-> NoShort]]
    /\ qStage = "idle"
    /\ qAnswered = FALSE
    /\ qTimer = "unset"
    /\ qResponses = <<>>
    /\ qRenders = 0
    /\ pStage = "idle"
    /\ pPhone = <<>>
    /\ pAnswered = FALSE
    /\ pRequested = FALSE
    /\ pTimer = "unset"
    /\ pResponses = <<>>
    /\ pRpc = 0
    /\ pRpcCalls = 0
    /\ pReported = {}
    /\ storeCall = [s \in ApiIds |-> NoCall]
    /\ pRaw = NoText
    /\ pCode = NoText
    /\ pDetails = ""
    /\ lastCreds = NoCredsResponse

Init == QsInit /\ ApiInit

\* src/public/app.js: the qr-start sessions.
QsNextOf(id) ==
    \/ QrStart(id)
    \/ StartQrFlowResume(id)
    \/ StartQrFlowReject(id)
    \/ QrCredsUpdate(id)
    \/ \E u \in Updates : QrConnectionUpdate(id, u)
    \/ QrTimeout(id)

QsNext == \E id \in QrIds : QsNextOf(id)

\* One qr-start session and the polls of GET /qr-status.
StatusNext ==
    \/ QsNextOf(1)
    \/ \E id \in StatusIds : QrStatus(id)

\* createSocket's handlers, sendMessage's outcome and the polls of session s.
StoreNext ==
    \/ \E s \in ApiIds : ApiCredsUpdate(s)
    \/ \E s \in ApiIds : RestartedOpen(s)
    \/ \E s \in ApiIds : SendDone(s)
    \/ \E s \in ApiIds : SendFail(s)
    \/ \E id \in PollIds : PollResult(id)

QrRouteNext ==
    \/ QrRequest
    \/ QrSocketReady
    \/ QrSocketFailed
    \/ QrTimerFire
    \/ \E u \in Updates : QrRouteUpdate(u)
    \/ QrRenderDone
    \/ QrRenderFail

PairRouteNext ==
    \/ PairSocketReady
    \/ PairSocketFailed
    \/ PairTimerFire
    \/ \E u \in Updates : PairRouteUpdate(u)
    \/ \E raw \in ApiRpcCodes : PairRpcReturn(raw)
    \/ \E e \in RpcErrors : PairRpcThrow(e)

\* src/index.js: one request, its socket events, the stores and the polls.
ApiNext ==
    \/ StoreNext
    \/ QrRouteNext
    \/ \E query \in ApiPhones : PairRequest(query)
    \/ PairRouteNext

\* The pair request over every query string.
PhoneNext ==
    \/ \E query \in PhoneInputs : PairRequest(query)
    \/ PairRouteNext

\* storeSessionAndCode on its own: credentials get saved, the function is
\* called at any moment, the result is polled.
StoreUnitNext ==
    \/ \E s \in ApiIds : SaveCreds(s)
    \/ \E s \in ApiIds : StoreCall(s)
    \/ \E id \in PollIds : PollResult(id)

Spec == Init /\ [][QsNext]_vars

SpecApi == Init /\ [][ApiNext]_vars

SpecPhone == Init /\ [][PhoneNext]_vars

\* One valid pair request, requestPairingCode returning any string.
FormatNext ==
    \/ PairRequest(DigitRun(MinPhoneLen))
    \/ PairSocketReady
    \/ PairSocketFailed
    \/ PairTimerFire
    \/ \E u \in Updates : PairRouteUpdate(u)
    \/ \E raw \in RpcCodes : PairRpcReturn(raw)
    \/ \E e \in RpcErrors : PairRpcThrow(e)

SpecFormat == Init /\ [][FormatNext]_vars

\* src/public/app.js: the /code-session request.
CodeNext ==
    \/ \E query \in CodeQueries : CodeRequest(query)
    \/ CodeSetupResume
    \/ CodeSetupThrow
    \/ CodeCredsUpdate
    \/ \E u \in Updates : CodeConnectionUpdate(u)
    \/ CodeEndTimer
    \/ CodeRpcReturn
    \/ \E e \in RpcErrors : CodeRpcThrow(e)
    \/ CodeTimeout

\* One qr-start session and one /code-session request, side by side.
LoginNext ==
    \/ QsNextOf(1)
    \/ CodeNext

SpecLogin == Init /\ [][LoginNext]_vars

SpecStatus == Init /\ [][StatusNext]_vars

SpecStore == Init /\ [][StoreUnitNext]_vars

\* What a socket that is not closed reports: QR codes, connecting, open.
LoginReports == { u \in Updates : u.connection # "close" }

\* The three polls next to writers of the session state of both servers:
\* one qr-start login, and saves and stores of the QR session's creds.
PollNext ==
    \/ QrStart(1)
    \/ StartQrFlowResume(1)
    \/ \E u \in LoginReports : QrConnectionUpdate(1, u)
    \/ SaveCreds(QrSid)
    \/ StoreCall(QrSid)
    \/ \E id \in StatusIds : QrStatus(id)
    \/ \E id \in PollIds : PollResult(id)
    \/ \E code \in PollCodes : GetCreds(code)

SpecPoll == Init /\ [][PollNext]_vars

\* One /api/session/pair request and one /code-session request, each on
\* its own server.
RpcNext ==
    \/ PairRequest(DigitRun(MinPhoneLen))
    \/ PairRouteNext
    \/ CodeNext

SpecRpc == Init /\ [][RpcNext]_vars

\* Timers that are armed fire, and an awaited createSocket settles.
ApiFairness ==
    /\ WF_vars(QrTimerFire)
    /\ WF_vars(PairTimerFire)
    /\ WF_vars(QrSocketReady \/ QrSocketFailed)
    /\ WF_vars(PairSocketReady \/ PairSocketFailed)

FairSpecApi == Init /\ [][ApiNext]_vars /\ ApiFairness

\* Timers that are armed fire and the setup awaits of generateCodeSession
\* settle; requestPairingCode and the socket's events need not come.
LoginFairness ==
    /\ WF_vars(CodeTimeout)
    /\ WF_vars(CodeEndTimer)
    /\ WF_vars(CodeSetupResume \/ CodeSetupThrow)

FairSpecLogin == Init /\ [][LoginNext]_vars /\ LoginFairness

\* ------------------------------------------------------------- claims

Terminal == {"done", "error", "expired"}

\* The status steps the lifecycle allows:
\* starting/connecting -> qr* -> one terminal value, which then stays.
AllowedStep(a, b) ==
    \/ a = b
    \/ a = "undefined" /\ b = "starting"
    \/ a = "starting" /\ b \in {"connecting"} \cup Terminal
    \/ a = "connecting" /\ b \in {"qr"} \cup Terminal
    \/ a = "qr" /\ b \in Terminal

\* C1: in the qr-start flow a status that reached done, error or expired
\* never changes again, and the status history is a path
\* starting/connecting -> qr* -> one terminal value.
C1_TerminalStatusIsFinal ==
    [][\A id \in QrIds :
          AllowedStep(qrSessions[id].status, qrSessions'[id].status)]_vars

C3_PollStable ==
    [][\A id \in ApiIds :
          /\ sessCreds'[id] = 0 => ~lastPoll'[id].ready
          /\ lastPoll[id].ready => lastPoll'[id] = lastPoll[id]]_vars

\* C3 witness: a poll answered ready:true and the session's credentials
\* have been updated and stored again under the same code.
C3_Witness ==
    \E id \in ApiIds :
        /\ lastPoll[id].ready
        /\ sessCreds[id] = 2
        /\ codeFiles[lastPoll[id].code] = CredsJson(id, 2)

\* The digit characters of a string.
DigitCount(str) == Cardinality({ i \in 1..Len(str) : str[i] \in Digits })

AllDigits(str) == DigitCount(str) = Len(str)

C5_QrAnsweredOnce == Len(qResponses) <= 1

\* C6: a GET /api/session/pair request is answered at most once.
C6_PairAnsweredOnce == Len(pResponses) <= 1

\* C6 witness: the timer answered while requestPairingCode was pending, the
\* call then returned and the socket reported its close.
C6_Witness ==
    /\ pResponses = <<"504 pair_timeout">>
    /\ pRpcCalls = 1
    /\ pRpc = 0
    /\ routeSock[PairSid] = "closed"

\* C7: every /api/session/qr request and every valid /api/session/pair
\* request is eventually answered.
C7_EveryRequestAnswered ==
    /\ (qStage = "creating") ~> (Len(qResponses) > 0)
    /\ (pStage = "creating") ~> (Len(pResponses) > 0)

\* C7 witness: after a restart-required close the timer answered the QR
\* request with 504.
C7_Witness ==
    /\ qResponses = <<"504 QR timeout">>
    /\ createCalls[QrSid] = 2
    /\ routeSock[QrSid] = "closed"

\* C8: when the safety timer of a qr-start session fires, a session that
\* is not done becomes expired with the timeout message and its socket is
\* ended; a done session is left as it is.
C8_TimerExpires ==
    [][\A id \in QrIds :
          (qsTimer[id] = "armed" /\ qsTimer'[id] = "fired") =>
              IF qrSessions[id].status = "done"
              THEN qrSessions'[id] = qrSessions[id] /\ qsSock'[id] = qsSock[id]
              ELSE /\ qrSessions'[id].status = "expired"
                   /\ qrSessions'[id].error = "Timed out waiting for scan/login"
                   /\ qsSock'[id] \in {"ending", "ended"}]_vars

\* C8 witness: one session was expired by its timer while waiting for a
\* scan, another was done when its timer fired.
C8_Witness ==
    \E a, b \in QrIds :
        /\ qsTimer[a] = "fired" /\ qrSessions[a].status = "expired"
        /\ qrSessions[a].qr # NoQr /\ qsSock[a] = "ending"
        /\ qsTimer[b] = "fired" /\ qrSessions[b].status = "done"

\* C9 as stated: requestPairingCode is invoked exactly once per session,
\* when the connection reports open.
C9_Original == (pRpcCalls = 1) <=> ("open" \in pReported)

\* C9 amended: requestPairingCode is invoked at most once per session, on
\* the first report of connecting or open, and not at all when neither is
\* reported.
C9_RpcOnceOnFirstReport ==
    /\ pRpcCalls = (IF pReported \cap {"connecting", "open"} # {} THEN 1 ELSE 0)
    /\ pRequested <=> pRpcCalls = 1

\* C9 witness: connecting and open were both reported, the socket closed
\* with restart-required and was recreated, and one call was made.
C9_Witness ==
    /\ pReported = {"connecting", "open", "close"}
    /\ createCalls[PairSid] = 2
    /\ pRpcCalls = 1

\* The request was answered with a timeout or a failure.
EndedTerminally(responses) ==
    \E i \in 1..Len(responses) :
        responses[i] \in {"504 QR timeout", "504 pair_timeout",
                          "500 connection_closed", "500 pair_code_error"}

ResponsesOf(s) == IF s = QrSid THEN qResponses ELSE pResponses

\* C10: a restart-required close opens at most one fresh connection, and
\* none for a session whose request was already answered with a timeout or
\* a failure.
C10_RestartNotAfterEnd ==
    [][\A s \in ApiIds :
          (createCalls[s] >= 1 /\ createCalls'[s] # createCalls[s]) =>
              /\ createCalls'[s] = createCalls[s] + 1
              /\ ~EndedTerminally(ResponsesOf(s))]_vars

\* C11: two login attempts never interfere: the token a qr-start session
\* yields on open is built from the credential files of that session only
\* (or from none, when it saved none), never from files written on behalf
\* of another attempt.
C11_TokenFromOwnFiles ==
    \A id \in QrIds :
        qrSessions[id].session # NoSession =>
            qrSessions[id].session[2] \in {EmptyDir.owner, id}

\* C13: a qr-start session torn down by its timer, with no terminating
\* event before, has sock.end() called exactly once over the whole run,
\* the close reported after the teardown included.
C13_TimerEndsOnce ==
    \A id \in QrIds : qsFirstEnd[id] = "timer" => qsEndCalls[id] = 1

\* C19: the timer of a session is cancelled once the session is terminal:
\* when the safety timer of a qr-start session that is already done, failed
\* or expired fires, it changes nothing of the session and ends no socket.
C19_NoTimerAfterTerminal ==
    [][\A id \in QrIds :
          (/\ qrSessions[id].status \in Terminal
           /\ qsTimer[id] = "armed" /\ qsTimer'[id] = "fired") =>
              /\ qrSessions'[id] = qrSessions[id]
              /\ qsSock'[id] = qsSock[id]
              /\ qsEndCalls'[id] = qsEndCalls[id]]_vars

\* C20: whenever a session leaves the non-terminal states its connection
\* is closed: at the step that answers a request with a timeout or a
\* failure, the socket of that request is not left open.
C20_TerminalClosesSocket ==
    [][\A s \in ApiIds :
          (/\ ~EndedTerminally(ResponsesOf(s))
           /\ EndedTerminally(ResponsesOf(s))') =>
              routeSock'[s] # "live"]_vars

\* C16: GET /api/session/creds/:code answers 404 for a code no session
\* was given, and for the code of a session it answers 200 with the
\* credentials of that session as a store of the session wrote them.
C16_CredsByCode ==
    \A c \in Codes :
        IF \E s \in ApiIds : sessionResults[s] = c
        THEN \E s \in ApiIds, v \in 1..MaxVer :
                /\ sessionResults[s] = c
                /\ v <= sessCreds[s]
                /\ CredsResponse(codeFiles, c) =
                      [http |-> 200, code |-> c,
                       creds |-> ParseCreds(CredsJson(s, v))]
        ELSE CredsResponse(codeFiles, c).http = 404

\* C18: when creds.json of the session does not exist, storeSessionAndCode
\* returns null, registers no code, leaves the map and the code files as
\* they are, and the session is still reported as not ready.
C18_NoCredsNoCode ==
    [][\A s \in ApiIds :
          (StoreCall(s) /\ sessCreds[s] = 0) =>
              /\ storeCall'[s].ret = NoShort
              /\ sessionResults' = sessionResults
              /\ codeFiles' = codeFiles
              /\ ~ResultBody(sessionResults', s).ready]_vars

\* C18 witness: the function was called for a session without creds.json
\* while the other session holds a code and a stored file, and the poll of
\* the session answered not ready.
C18_Witness ==
    /\ storeCall[PairSid].calls = 1
    /\ storeCall[PairSid].version = 0
    /\ storeCall[PairSid].ret = NoShort
    /\ sessionResults[QrSid] # NoShort
    /\ codeFiles[sessionResults[QrSid]] # NoFile
    /\ sessionResults[PairSid] = NoShort
    /\ lastPoll[PairSid] = [ready |-> FALSE, code |-> NoShort]

Ungroup(sent) == SelectSeq(sent, LAMBDA ch : ch # "-")

\* C15: the code sent to the caller is the string requestPairingCode
\* returned, split left to right into groups of four characters joined by
\* '-': every group but the last has four characters, the last has one to
\* four, and removing the separators gives back the original string.
C15_CodeGroupedByFour ==
    [][pResponses' = Append(pResponses, "200 pair_code_generated") =>
          /\ Ungroup(pCode') = pRaw'
          /\ \A i \in 1..Len(pCode') :
                (pCode'[i] = "-") <=> (i % (GroupLen + 1) = 0)
          /\ Len(pCode') % (GroupLen + 1) # 0 \/ pRaw' = <<>>]_vars

\* C15 witness: a code of six characters went out as a group of four and a
\* last group of two.
C15_Witness ==
    /\ pResponses = <<"200 pair_code_generated">>
    /\ pRaw = <<"2", "K", "2", "K", "2", "K">>
    /\ pCode = <<"2", "K", "2", "K", "-", "2", "K">>

\* C12: a poll never errors on an unknown session id: GET /qr-status with
\* an id that was never issued answers with a success status, not ready
\* and no token.
C12_UnknownIdNotAnError ==
    [][\A id \in StatusIds \ {MissingId} :
          (QrStatus(id) /\ EntryOf(qrSessions, id) = NoEntry) =>
              /\ lastStatus'.http = 200
              /\ lastStatus'.session = NoSession]_vars

\* The close reports that carry the logged-out reason.
LogoutCloses == { u \in Updates : u.connection = "close" /\ u.code = LoggedOut }

LogoutMessage == "Logged out / device removed by WhatsApp"

\* A logged-out close on a qr-start session without a token: status error
\* with the logged-out message.
QrLogoutFails ==
    \A u \in LogoutCloses :
        (QrConnectionUpdate(1, u) /\ qrSessions[1].session = NoSession) =>
            /\ qrSessions'[1].status = "error"
            /\ qrSessions'[1].error = LogoutMessage

\* The /code-session request fails with the logged-out message.
CodeFailsWithLogout ==
    /\ csOutcome' = Rejected(LogoutMessage)
    /\ csPc = "returned" =>
          csResponses' = <<CodeResponse(Rejected(LogoutMessage))>>

\* C14 as stated: a logged-out close that arrives before any token was
\* produced makes the qr-start session an error with the logged-out
\* message and makes the /code-session request fail with that message.
C14_Original ==
    [][/\ QrLogoutFails
       /\ \A u \in LogoutCloses :
             (CodeConnectionUpdate(u) /\ csOutcome.kind # "resolved") =>
                 CodeFailsWithLogout]_vars

\* C14 amended: in the qr-start flow as stated; in the code-session flow
\* the request fails with the logged-out message when the close arrives
\* before the outcome was decided, and a close that arrives after a token
\* or an earlier failure leaves the outcome as it is.
C14_LogoutBeforeOutcome ==
    [][/\ QrLogoutFails
       /\ \A u \in LogoutCloses :
             CodeConnectionUpdate(u) =>
                 IF ~csFinished
                 THEN CodeFailsWithLogout
                 ELSE csOutcome' = csOutcome /\ csResponses' = csResponses]_vars

\* C14 witness: both flows saw the logged-out close before a token; the
\* qr-start session is an error and the /code-session request was answered
\* 500, each with the logged-out message.
C14_Witness ==
    /\ qrSessions[1].status = "error"
    /\ qrSessions[1].error = LogoutMessage
    /\ qsSock[1] = "ended"
    /\ csSock = "ended"
    /\ csOutcome = Rejected(LogoutMessage)
    /\ csResponses = <<CodeResponse(Rejected(LogoutMessage))>>

C22_SentAtMostOnce == \A s \in ApiIds : sendCalls[s] <= 1

\* C23: every creds.update of a createSocket session attempts the store:
\* afterwards the result endpoint reports the session ready with its code,
\* open or not; when the write succeeded the file of the code holds the
\* credentials just saved, else the files are as before; and a session
\* that was ready keeps its code.
C23_ReadyOnCredsUpdate ==
    [][\A s \in ApiIds :
          ApiCredsUpdate(s) =>
              /\ ResultBody(sessionResults', s) =
                    [ready |-> TRUE, code |-> sessionResults'[s]]
              /\ sessionResults'[s] \in Codes
              /\ \/ codeFiles' = codeFiles
                 \/ codeFiles' = [codeFiles EXCEPT ![sessionResults'[s]] =
                                     CredsJson(s, sessCreds'[s])]
              /\ ResultBody(sessionResults, s).ready =>
                    ResultBody(sessionResults', s) = ResultBody(sessionResults, s)]_vars

\* C23 witness: the pair session is ready after two credential updates,
\* the second one stored under the same code, and its only socket has not
\* reported open.
C23_Witness ==
    /\ "open" \notin pReported
    /\ createCalls[PairSid] = 1
    /\ sessCreds[PairSid] = 2
    /\ lastPoll[PairSid] = [ready |-> TRUE, code |-> sessionResults[PairSid]]
    /\ codeFiles[sessionResults[PairSid]] = CredsJson(PairSid, 2)

\* C24: every code present in the sessionId-to-code map has a stored
\* credential file, so a code reported by the result endpoint is never
\* answered 404 by the credentials endpoint.
C24_ReportedCodeHasFile ==
    \A s \in ApiIds :
        ResultBody(sessionResults, s).ready =>
            CredsResponse(codeFiles, ResultBody(sessionResults, s).code).http # 404

\* C25: the polling endpoints only read: a step of GET
\* /api/session/result/:id, GET /qr-status or GET /api/session/creds/:code,
\* for a known or an unknown id or code, leaves the session registry, the
\* sessionId-to-code map and the stored credential files as they were.
C25_PollsOnlyRead ==
    [][\/ UNCHANGED <<qrSessions, sessionResults, codeFiles>>
       \/ ~ \/ \E id \in PollIds : PollResult(id)
            \/ \E id \in StatusIds : QrStatus(id)
            \/ \E code \in PollCodes : GetCreds(code)]_vars

\* C25 witness: with a QR session registered and credentials stored under
\* a code, the result poll of the session and of an unknown id, the status
\* poll of an unknown id and the creds poll of the code were answered.
C25_Witness ==
    /\ qrSessions[1].status = "qr"
    /\ lastStatus.http = 404
    /\ lastPoll[QrSid] = [ready |-> TRUE, code |-> sessionResults[QrSid]]
    /\ lastPoll[Unknown].ready = FALSE
    /\ lastCreds.http = 200
    /\ lastCreds.code = sessionResults[QrSid]
    /\ codeFiles[sessionResults[QrSid]] # NoFile

\* C26 as stated: a throwing requestPairingCode yields, in
\* /api/session/pair, the 500 pair_code_error response with the error's
\* text when the request is unanswered, and in code-session it rejects the
\* request with that error.
C26_Original ==
    [][\A e \in RpcErrors :
          /\ (PairRpcThrow(e) /\ ~pAnswered) =>
                /\ pResponses' = Append(pResponses, "500 pair_code_error")
                /\ pDetails' = ErrorText(e)
          /\ CodeRpcThrow(e) =>
                /\ csOutcome' = Rejected(e)
                /\ csResponses' = <<CodeResponse(Rejected(e))>>]_vars

\* C26: a throwing requestPairingCode is caught. In /api/session/pair it
\* yields the 500 pair_code_error response with the error's text when the
\* request is unanswered and nothing otherwise; in code-session it rejects
\* the request with that error when no open or close event has decided
\* the outcome while the RPC was pending, and otherwise the response
\* carries the outcome decided before.
C26_RpcFailureCaught ==
    [][\A e \in RpcErrors :
          /\ PairRpcThrow(e) =>
                IF pAnswered
                THEN UNCHANGED <<pResponses, pDetails>>
                ELSE /\ pResponses' =
                           Append(pResponses, "500 pair_code_error")
                     /\ pDetails' = ErrorText(e)
                     /\ pAnswered'
          /\ CodeRpcThrow(e) =>
                IF csFinished
                THEN /\ csOutcome' = csOutcome
                     /\ csResponses' = <<CodeResponse(csOutcome)>>
                ELSE /\ csOutcome' = Rejected(e)
                     /\ csResponses' =
                           <<[http |-> 500, session |-> NoSession,
                              error |-> ErrorText(e)]>>]_vars

\* C26 witness: the pairing-code RPC of the /code-session request threw
\* and the request was answered 500 with the message of that error.
C26_Witness ==
    /\ csPc = "returned"
    /\ csOutcome = Rejected("rate-overlimit")
    /\ csResponses = <<[http |-> 500, session |-> NoSession,
                        error |-> "rate-overlimit"]>>

\* An event that decides a code-session login: an open or a close event,
\* a failure of the pairing-code RPC, the timeout.
CodeDecidingStep ==
    \/ \E u \in Updates :
          u.connection \in {"open", "close"} /\ CodeConnectionUpdate(u)
    \/ \E e \in RpcErrors : CodeRpcThrow(e)
    \/ CodeTimeout

\* C27: the outcome of a code-session login is decided once: the first
\* open, close, pairing-code failure or timeout settles it, no later step
\* changes it, and the request gets at most one response, which is the
\* response of that outcome once generateCodeSession has returned.
C27_DecidedOnce ==
    [][/\ csOutcome # Pending => csOutcome' = csOutcome
       /\ Len(csResponses') <= 1
       /\ csResponses # <<>> => csResponses' = csResponses
       /\ (csPc' = "returned" /\ csResponses' # <<>>) =>
             csResponses' = <<CodeResponse(csOutcome')>>
       /\ csOutcome # Pending \/ csOutcome' # Pending \/ ~CodeDecidingStep]_vars

\* C27 witness: an open decided the outcome and the request was answered
\* with the session; afterwards the socket closed and the 3-minute timer
\* fired, and the outcome and the one response are as they were.
C27_Witness ==
    /\ csOutcome.kind = "resolved"
    /\ csSock = "ended"
    /\ csTimer = "fired"
    /\ csResponses = <<CodeResponse(csOutcome)>>

\* C28: every GET /code-session request with a non-empty phone is
\* eventually answered, also when no open or close event arrives and when
\* requestPairingCode stays pending.
C28_CodeRequestAnswered == (csPc = "awaiting") ~> (csResponses # <<>>)

====
